---- MODULE Spec2Model ----
(***************************************************************************)
(* A model of the H-1B data pipeline of diyouva/H1-B-Analysis:             *)
(*   prepare.py     load_and_clean, integrate_employers                    *)
(*   simulation.py  simulate_fee_change                                    *)
(*   app.py         the simulation tab of the dashboard                    *)
(* Text is a sequence of one-character strings, so that upper-casing,      *)
(* trimming and the numeric clean-up are computed character by character.  *)
(* Numbers that pandas holds as floats are exact fixed-point integers:     *)
(* parsed cells in units of 10^-FracDigits, alpha and the elasticities in  *)
(* hundredths, simulated volumes in units of 1/(Hundred*Hundred).          *)
(***************************************************************************)
EXTENDS Integers, Sequences, FiniteSets, TLC

VARIABLES
    simDf,        \* simulate_fee_change: the rows of the table passed as df
    simCols,      \* ... and the columns that table has
    simCall,      \* the arguments of the call, NoCall before it
    simPc,        \* "idle" | "returned" | "raised"
    simErr,       \* the exception raised, "none" otherwise
    simLocal,     \* the rows of the function's local copy of df
    simSummary,   \* the returned summary, NoSummary when nothing is returned
    dataDir,      \* load_and_clean: the files of data_dir, by name
    loadPc,       \* "idle" | "returned" | "raised"
    loadErr,      \* the exception raised, "none" otherwise
    unified,      \* the rows of the returned df_all
    loadWarned,   \* the "Column not found" warnings the call printed
    loadLeft,     \* the calls of load_and_clean still to be made
    intDf,        \* integrate_employers: the rows of the table passed as df
    refFiles,     \* the three reference files, Absent when there is none
    getters,      \* the module's names get_opt_companies, get_cpt_companies
    getterCalls,  \* how often the last call called each of the two
    intPc,        \* "idle" | "returned" | "raised"
    intErr,       \* the exception raised, "none" otherwise
    intLeft,      \* the calls of integrate_employers still to be made
    tab2          \* app.py: the names the simulation tab bound in its last run

simVars == <<simDf, simCols, simCall, simPc, simErr, simLocal, simSummary>>

loadVars == <<dataDir, loadPc, loadErr, unified, loadWarned, loadLeft>>

intVars == <<intDf, refFiles, getters, getterCalls, intPc, intErr, intLeft>>

vars == <<simDf, simCols, simCall, simPc, simErr, simLocal, simSummary,
          dataDir, loadPc, loadErr, unified, loadWarned, loadLeft, intDf, refFiles, getters, getterCalls,
          intPc, intErr, intLeft, tab2>>

----------------------------------------------------------------------------
(* Bounds of the model *)

MaxSimRows == 2
MaxFiles == 2
MaxRowsPerFile == 2
MaxRefRows == 1
\* calls of load_and_clean on one data directory, and of
\* integrate_employers on one table
MaxRuns == 2
\* decimal places of the fixed-point numbers that stand for parsed cells
FracDigits == 1

----------------------------------------------------------------------------
(* Generic helpers *)

Abs(n) == IF n < 0 THEN -n ELSE n

RECURSIVE Gcd(_, _)
Gcd(a, b) == IF b = 0 THEN a ELSE Gcd(b, a % b)

SeqsUpTo(S, n) == UNION {[1..k -> S] : k \in 0..n}

RECURSIVE SumOver(_, _)
\* the sum of f[x] over the finite set S
SumOver(f, S) ==
    IF S = {} THEN 0
    ELSE LET x == CHOOSE y \in S : TRUE IN f[x] + SumOver(f, S \ {x})

\* float division n/d as pandas does it: a reduced fraction, NaN for 0/0,
\* +-inf for x/0
FloatDiv(n, d) ==
    IF d = 0
    THEN IF n = 0 THEN [kind |-> "nan"]
         ELSE [kind |-> "inf", sign |-> IF n < 0 THEN -1 ELSE 1]
    ELSE LET g == Gcd(Abs(n), Abs(d))
             s == IF d < 0 THEN -1 ELSE 1
         IN [kind |-> "num", num |-> s * (n \div g), den |-> s * (d \div g)]

Num(n) == [kind |-> "num", num |-> n, den |-> 1]

----------------------------------------------------------------------------
(* Text: a sequence of one-character strings *)

LowerLetters == <<"a", "b", "c", "d", "e", "f", "g", "h", "i", "j", "k", "l", "m", "n", "o", "p", "q", "r", "s", "t", "u", "v", "w", "x", "y", "z">>
UpperLetters == <<"A", "B", "C", "D", "E", "F", "G", "H", "I", "J", "K", "L", "M", "N", "O", "P", "Q", "R", "S", "T", "U", "V", "W", "X", "Y", "Z">>
Digits == <<"0", "1", "2", "3", "4", "5", "6", "7", "8", "9">>

SetMin(S) == CHOOSE x \in S : \A y \in S : x <= y
MinOrZero(S) == IF S = {} THEN 0 ELSE SetMin(S)

\* the first position of c in s, 0 when it does not occur
IndexIn(c, s) == MinOrZero({i \in DOMAIN s : s[i] = c})

\* str.upper and str.lower, one character at a time
UpperChar(c) == IF IndexIn(c, LowerLetters) > 0
                THEN UpperLetters[IndexIn(c, LowerLetters)] ELSE c
LowerChar(c) == IF IndexIn(c, UpperLetters) > 0
                THEN LowerLetters[IndexIn(c, UpperLetters)] ELSE c
UpperText(s) == [i \in DOMAIN s |-> UpperChar(s[i])]
LowerText(s) == [i \in DOMAIN s |-> LowerChar(s[i])]

IsSpace(c) == c \in {" ", "\t"}
IsDigit(c) == IndexIn(c, Digits) > 0
DigitValue(c) == IndexIn(c, Digits) - 1

\* str.strip(): drop leading and trailing whitespace
RECURSIVE LStrip(_)
LStrip(s) == IF s # << >> /\ IsSpace(Head(s)) THEN LStrip(Tail(s)) ELSE s
RECURSIVE RStrip(_)
RStrip(s) == IF s # << >> /\ IsSpace(s[Len(s)])
             THEN RStrip(SubSeq(s, 1, Len(s) - 1)) ELSE s
Strip(s) == RStrip(LStrip(s))

\* str.replace(from, to) for single characters; to = "" deletes
ReplaceChar(s, from, to) == [i \in DOMAIN s |-> IF s[i] = from THEN to ELSE s[i]]
RemoveChar(s, ch) == SelectSeq(s, LAMBDA c : c # ch)

\* needle in hay (substring test)
Contains(hay, needle) ==
    \E i \in 1..(Len(hay) - Len(needle) + 1) :
        SubSeq(hay, i, i + Len(needle) - 1) = needle

\* a missing value (NaN) where text is expected; astype(str) makes it "nan"
NA == <<"<NA>">>
AsStr(v) == IF v = NA THEN <<"n", "a", "n">> ELSE v

RECURSIVE Pow10(_)
Pow10(n) == IF n = 0 THEN 1 ELSE 10 * Pow10(n - 1)

----------------------------------------------------------------------------
(* prepare.py: the literals of load_and_clean *)

T_Employer == <<"E", "m", "p", "l", "o", "y", "e", "r">>
T_EMPLOYER == <<"E", "M", "P", "L", "O", "Y", "E", "R">>
T_Initial_Approvals == <<"I", "n", "i", "t", "i", "a", "l", "_", "A", "p", "p", "r", "o", "v", "a", "l", "s">>
T_Continuing_Approvals == <<"C", "o", "n", "t", "i", "n", "u", "i", "n", "g", "_", "A", "p", "p", "r", "o", "v", "a", "l", "s">>
T_Initial_Denials == <<"I", "n", "i", "t", "i", "a", "l", "_", "D", "e", "n", "i", "a", "l", "s">>
T_Continuing_Denials == <<"C", "o", "n", "t", "i", "n", "u", "i", "n", "g", "_", "D", "e", "n", "i", "a", "l", "s">>
A_INITIAL_APPROVALS == <<"I", "N", "I", "T", "I", "A", "L", "_", "A", "P", "P", "R", "O", "V", "A", "L", "S">>
A_Initial_Approvals_sp == <<"I", "n", "i", "t", "i", "a", "l", " ", "A", "p", "p", "r", "o", "v", "a", "l", "s">>
A_CONTINUING_APPROVALS == <<"C", "O", "N", "T", "I", "N", "U", "I", "N", "G", "_", "A", "P", "P", "R", "O", "V", "A", "L", "S">>
A_Continuing_Approvals_sp == <<"C", "o", "n", "t", "i", "n", "u", "i", "n", "g", " ", "A", "p", "p", "r", "o", "v", "a", "l", "s">>
A_Initial_Denials_sp == <<"I", "n", "i", "t", "i", "a", "l", " ", "D", "e", "n", "i", "a", "l", "s">>
A_Continuing_Denials_sp == <<"C", "o", "n", "t", "i", "n", "u", "i", "n", "g", " ", "D", "e", "n", "i", "a", "l", "s">>
H_Company == <<"C", "o", "m", "p", "a", "n", "y">>
GlobPrefix == <<"h", "1", "b", "_", "d", "a", "t", "a", "h", "u", "b", "e", "x", "p", "o", "r", "t", "-">>
GlobSuffix == <<".", "c", "s", "v">>
F_2015 == <<"h", "1", "b", "_", "d", "a", "t", "a", "h", "u", "b", "e", "x", "p", "o", "r", "t", "-", "2", "0", "1", "5", ".", "c", "s", "v">>
AsciiOrder == <<" ", "$", ",", "-", ".", "0", "1", "2", "3", "4", "5", "6", "7", "8", "9", "A", "B", "C", "D", "E", "F", "G", "H", "I", "J", "K", "L", "M", "N", "O", "P", "Q", "R", "S", "T", "U", "V", "W", "X", "Y", "Z", "_", "a", "b", "c", "d", "e", "f", "g", "h", "i", "j", "k", "l", "m", "n", "o", "p", "q", "r", "s", "t", "u", "v", "w", "x", "y", "z">>

\* detect_employer_column: the accepted headers, in the order they are tried
EmployerAliases == <<T_Employer, <<"E", "m", "p", "l", "o", "y", "e", "r", " ", "N", "a", "m", "e">>, <<"E", "M", "P", "L", "O", "Y", "E", "R", "_", "N", "A", "M", "E">>, T_EMPLOYER>>

\* name_map: the four targets in dict order, each with its aliases in order
Targets == <<T_Initial_Approvals, T_Continuing_Approvals,
             T_Initial_Denials, T_Continuing_Denials>>
Aliases ==
    << <<<<"I", "n", "i", "t", "i", "a", "l", "_", "A", "p", "p", "r", "o", "v", "a", "l">>, A_INITIAL_APPROVALS, A_Initial_Approvals_sp>>,
       <<<<"C", "o", "n", "t", "i", "n", "u", "i", "n", "g", "_", "A", "p", "p", "r", "o", "v", "a", "l">>, A_CONTINUING_APPROVALS, A_Continuing_Approvals_sp>>,
       <<<<"I", "n", "i", "t", "i", "a", "l", "_", "D", "e", "n", "i", "a", "l">>, <<"I", "N", "I", "T", "I", "A", "L", "_", "D", "E", "N", "I", "A", "L", "S">>, A_Initial_Denials_sp>>,
       <<<<"C", "o", "n", "t", "i", "n", "u", "i", "n", "g", "_", "D", "e", "n", "i", "a", "l">>, <<"C", "O", "N", "T", "I", "N", "U", "I", "N", "G", "_", "D", "E", "N", "I", "A", "L", "S">>, A_Continuing_Denials_sp>> >>

----------------------------------------------------------------------------
(* prepare.py: load_and_clean *)

Range(s) == {s[i] : i \in DOMAIN s}

\* string comparison as sorted() does it: by code point, a prefix first
CharCode(c) == IndexIn(c, AsciiOrder)
RECURSIVE TextLess(_, _)
TextLess(a, b) ==
    IF b = << >> THEN FALSE
    ELSE IF a = << >> THEN TRUE
    ELSE IF Head(a) = Head(b) THEN TextLess(Tail(a), Tail(b))
    ELSE CharCode(Head(a)) < CharCode(Head(b))

RECURSIVE SortedNames(_)
SortedNames(S) ==
    IF S = {} THEN << >>
    ELSE LET m == CHOOSE x \in S : \A y \in S \ {x} : TextLess(x, y)
         IN <<m>> \o SortedNames(S \ {m})

\* glob("h1b_datahubexport-*.csv")
GlobMatches(name) ==
    /\ Len(name) >= Len(GlobPrefix) + Len(GlobSuffix)
    /\ SubSeq(name, 1, Len(GlobPrefix)) = GlobPrefix
    /\ SubSeq(name, Len(name) - Len(GlobSuffix) + 1, Len(name)) = GlobSuffix

\* s.split(sep)[-1] and s.split(sep)[0]
RECURSIVE AfterLast(_, _)
AfterLast(s, sep) ==
    IF \E i \in DOMAIN s : s[i] = sep
    THEN AfterLast(SubSeq(s, IndexIn(sep, s) + 1, Len(s)), sep)
    ELSE s
BeforeFirst(s, sep) ==
    IF \E i \in DOMAIN s : s[i] = sep
    THEN SubSeq(s, 1, SetMin({i \in DOMAIN s : s[i] = sep}) - 1)
    ELSE s

RECURSIVE DigitsValue(_)
DigitsValue(s) ==
    IF s = << >> THEN 0
    ELSE 10 * DigitsValue(SubSeq(s, 1, Len(s) - 1)) + DigitValue(s[Len(s)])

\* int(text): decimal digits with an optional sign; ok = FALSE is ValueError
ParseInt(s) ==
    LET t == Strip(s)
        neg == t # << >> /\ Head(t) = "-"
        body == IF t # << >> /\ Head(t) \in {"-", "+"} THEN Tail(t) ELSE t
    IN IF body # << >> /\ \A i \in DOMAIN body : IsDigit(body[i])
       THEN [ok |-> TRUE, val |-> IF neg THEN -DigitsValue(body) ELSE DigitsValue(body)]
       ELSE [ok |-> FALSE, val |-> 0]

\* year = int(os.path.basename(f).split("-")[-1].split(".")[0])
YearOf(name) == ParseInt(BeforeFirst(AfterLast(name, "-"), "."))

\* df.columns.str.strip().str.replace(" ", "_")
NormalizeHeader(h) == ReplaceChar(Strip(h), " ", "_")


\* detect_employer_column: the first accepted header that is a column
DetectEmployerColumn(cols) ==
    LET hits == {k \in DOMAIN EmployerAliases : EmployerAliases[k] \in Range(cols)}
    IN IF hits = {} THEN << >> ELSE EmployerAliases[SetMin(hits)]

\* df.rename(columns={emp_col: "Employer"})
RenameColumn(cols, from, to) ==
    [i \in DOMAIN cols |-> IF cols[i] = from THEN to ELSE cols[i]]

\* x.lower().replace("_", "")
MatchKey(x) == RemoveChar(LowerText(x), "_")

\* the loop of lines 76-81: the position of the first column matched by the
\* first alias that matches any column, 0 when none does
FindColumn(cols, aliases) ==
    LET match(a) == {i \in DOMAIN cols : Contains(MatchKey(cols[i]), MatchKey(a))}
        hits == {k \in DOMAIN aliases : match(aliases[k]) # {}}
    IN IF hits = {} THEN 0 ELSE SetMin(match(aliases[SetMin(hits)]))

\* a variant of KeepNumericChars that deletes the minus sign too
KeepDigitsAndDots(s) == SelectSeq(s, LAMBDA c : IsDigit(c) \/ c = ".")

\* .replace(r"[^0-9.\-]", "", regex=True)
KeepNumericChars(s) == SelectSeq(s, LAMBDA c : IsDigit(c) \/ c \in {".", "-"})

\* .replace("", "0")
EmptyToZero(s) == IF s = << >> THEN <<"0">> ELSE s

\* the value of a fixed-point number with FracDigits decimals
Unit == Pow10(FracDigits)

\* pd.to_numeric(cleaned, errors="coerce") on text made of digits, dots and
\* minus signs: an optional leading minus, digits with at most one dot and
\* at least one digit; anything else is NaN (ok = FALSE).  The value is in
\* units of 1/Unit; decimals beyond FracDigits are cut.
ToNumeric(s) ==
    LET neg == s # << >> /\ Head(s) = "-"
        body == IF neg THEN Tail(s) ELSE s
        dots == {i \in DOMAIN body : body[i] = "."}
        dot == IF dots = {} THEN Len(body) + 1 ELSE SetMin(dots)
        intPart == SubSeq(body, 1, dot - 1)
        fracPart == SubSeq(body, dot + 1, Len(body))
        wellFormed == /\ \A i \in DOMAIN body : body[i] # "-"
                      /\ Cardinality(dots) <= 1
                      /\ \E i \in DOMAIN body : IsDigit(body[i])
        frac == IF Len(fracPart) <= FracDigits
                THEN DigitsValue(fracPart) * Pow10(FracDigits - Len(fracPart))
                ELSE DigitsValue(SubSeq(fracPart, 1, FracDigits))
        mag == DigitsValue(intPart) * Unit + frac
    IN IF wellFormed THEN [ok |-> TRUE, val |-> IF neg THEN -mag ELSE mag]
       ELSE [ok |-> FALSE, val |-> 0]

\* lines 84-90: astype(str), the two replaces, to_numeric, fillna(0)
CoerceNumeric(cell) ==
    LET p == ToNumeric(EmptyToZero(KeepNumericChars(AsStr(cell))))
    IN IF p.ok THEN p.val ELSE 0

\* the columns of df once the first k targets have been assigned
\* (df[target] = ... appends the column unless it exists)
RECURSIVE ColsAfter(_, _)
ColsAfter(cols, k) ==
    IF k = 0 THEN cols
    ELSE LET c == ColsAfter(cols, k - 1)
         IN IF Targets[k] \in Range(c) THEN c ELSE Append(c, Targets[k])

\* df[target] for one row, in units of 1/Unit: the coerced cell of the
\* matched column, 0 (line 93) when no column matches.  A matched column
\* that an earlier target has already made numeric keeps its value.
RECURSIVE TargetValue(_, _, _)
TargetValue(cols, row, k) ==
    LET c == ColsAfter(cols, k - 1)
        j == FindColumn(c, Aliases[k])
        done == IF j = 0 THEN {} ELSE {m \in 1..(k - 1) : Targets[m] = c[j]}
    IN IF j = 0 THEN 0
       ELSE IF done # {} THEN TargetValue(cols, row, SetMin(done))
       ELSE CoerceNumeric(row[j])

\* lines 96-99: the row appended for one source row; the numbers are in
\* units of 1/Unit
OutRow(employer, year, ia, ca, idn, cd) ==
    [Employer |-> employer, Year |-> year,
     Initial_Approvals |-> ia, Continuing_Approvals |-> ca,
     Initial_Denials |-> idn, Continuing_Denials |-> cd,
     Total_Approvals |-> ia + ca,
     Total_Denials |-> idn + cd,
     Total_Applications |-> (ia + ca) + (idn + cd)]

\* lines 67-100 for the rows of one file whose columns are cols
CleanRows(cols, rows, year) ==
    [i \in DOMAIN rows |->
        OutRow(rows[i][IndexIn(T_Employer, cols)], year,
               TargetValue(cols, rows[i], 1), TargetValue(cols, rows[i], 2),
               TargetValue(cols, rows[i], 3), TargetValue(cols, rows[i], 4))]

\* a variant of Warnings that prints nothing
NoWarnings(cols, name) == << >>

\* lines 91-93: the warnings of one file, <<target, file name>> for each
\* target that no column matches, in the order of name_map
Warnings(cols, name) ==
    LET missing == SelectSeq(<<1, 2, 3, 4>>,
                             LAMBDA k : FindColumn(ColsAfter(cols, k - 1),
                                                   Aliases[k]) = 0)
    IN [i \in DOMAIN missing |-> <<Targets[missing[i]], name>>]

\* lines 67-100 for one file whose employer column is renamed
Cleaned(cols, rows, year, name) ==
    [err |-> "none", rows |-> CleanRows(cols, rows, year),
     warned |-> Warnings(cols, name)]

\* a variant of WithEmployer that skips a file without employer column
WithEmployerOrSkip(normalized, emp_col, rows, year, name) ==
    IF emp_col = << >> THEN [err |-> "none", rows |-> << >>, warned |-> << >>]
    ELSE Cleaned(RenameColumn(normalized, emp_col, T_Employer), rows, year, name)

\* lines 64-65: detect_employer_column raises, or the column is renamed
WithEmployer(normalized, emp_col, rows, year, name) ==
    IF emp_col = << >> THEN [err |-> "ValueError", rows |-> << >>, warned |-> << >>]
    ELSE Cleaned(RenameColumn(normalized, emp_col, T_Employer), rows, year, name)

NormalizeHeaders(header) == [i \in DOMAIN header |-> NormalizeHeader(header[i])]

\* lines 61-100 for one file, its year known
ReadFile(year, name, file) ==
    WithEmployer(NormalizeHeaders(file.header),
                 DetectEmployerColumn(NormalizeHeaders(file.header)),
                 file.rows, year, name)

\* a variant of FileWithYear that stamps the year 0 on a file whose name
\* holds no integer
FileWithSomeYear(year, name, file) == ReadFile(year.val, name, file)

\* lines 60-100: int(...) of the file name raises, or the file is read
FileWithYear(year, name, file) ==
    IF ~year.ok THEN [err |-> "ValueError", rows |-> << >>, warned |-> << >>]
    ELSE ReadFile(year.val, name, file)

\* .astype(int) of a float held in units of 1/Unit: cut toward zero
AsInt(v) == IF v < 0 THEN -((-v) \div Unit) ELSE v \div Unit

\* lines 105-106: to_numeric(...).fillna(0).astype(int) of the three totals
EnforceInt(row) ==
    [row EXCEPT !.Total_Approvals = AsInt(@),
                !.Total_Denials = AsInt(@),
                !.Total_Applications = AsInt(@)]

\* a variant of ThenRest that puts the later files first
RestThenFirst(first, rest) ==
    IF first.err # "none" THEN first
    ELSE [err |-> rest.err,
          rows |-> IF rest.err # "none" THEN << >> ELSE rest.rows \o first.rows,
          warned |-> first.warned \o rest.warned]

\* an exception in one file ends the loop; otherwise its rows precede the
\* rows of the files after it.  What was printed stays printed.
ThenRest(first, rest) ==
    IF first.err # "none" THEN first
    ELSE [err |-> rest.err,
          rows |-> IF rest.err # "none" THEN << >> ELSE first.rows \o rest.rows,
          warned |-> first.warned \o rest.warned]

\* the loop of line 59 over the sorted files, and pd.concat of line 102
RECURSIVE LoadFiles(_, _)
LoadFiles(names, dir) ==
    IF names = << >> THEN [err |-> "none", rows |-> << >>, warned |-> << >>]
    ELSE ThenRest(FileWithYear(YearOf(Head(names)), Head(names), dir[Head(names)]),
                  LoadFiles(Tail(names), dir))

\* lines 104-112: the final numeric enforcement and the return
ReturnTable(loaded) ==
    IF loaded.err # "none" THEN loaded
    ELSE [err |-> "none",
          rows |-> [i \in DOMAIN loaded.rows |-> EnforceInt(loaded.rows[i])],
          warned |-> loaded.warned]

\* a variant of LoadSorted that returns an empty table for no file
LoadSortedOrEmpty(all_files, dir) == ReturnTable(LoadFiles(all_files, dir))

\* lines 55-112, all_files known
LoadSorted(all_files, dir) ==
    IF all_files = << >>
    THEN [err |-> "FileNotFoundError", rows |-> << >>, warned |-> << >>]
    ELSE ReturnTable(LoadFiles(all_files, dir))

\* load_and_clean(data_dir): the exception, or the rows of df_all
LoadAndClean(dir) ==
    LoadSorted(SortedNames({n \in DOMAIN dir : GlobMatches(n)}), dir)

----------------------------------------------------------------------------
(* The inputs of load_and_clean: the files of the data directory *)

N_acme == <<"A", "c", "m", "e">>

\* what an outcome cell of a source file may hold
RichCells ==
    {NA, <<"0">>, <<"1">>, <<"0", ".", "5">>, <<"1", ".", "5">>, <<"-", "1">>,
     <<"1", ",", "0">>, <<"-">>, <<"D">>}
\* header rows: the five columns of the yearly exports, an upper-case
\* variant without denial columns, and a table with no employer column
HeaderFull == <<T_Employer, A_Initial_Approvals_sp, A_Initial_Denials_sp,
                A_Continuing_Approvals_sp, A_Continuing_Denials_sp>>
HeaderUpper == <<T_EMPLOYER, A_INITIAL_APPROVALS, A_CONTINUING_APPROVALS>>
HeaderNoEmployer == <<H_Company, A_Initial_Approvals_sp>>

\* one file of one row whose initial approvals and denials cells vary widely
RichFiles ==
    {[header |-> HeaderFull, rows |-> << <<n, a, d, c, <<"0">> >> >>] :
        n \in {N_acme, NA}, a \in RichCells, d \in RichCells,
        c \in {<<"0">>, <<"1">>}}

\* a file of n rows, told apart by the count in their first outcome cell
PlainFile(header, n) ==
    [header |-> header,
     rows |-> [k \in 1..n |->
                  [i \in DOMAIN header |->
                      IF i = 1 THEN N_acme
                      ELSE IF i = 2 THEN <<Digits[k + 1]>> ELSE <<"1">>]]]
\* the full export with no row and with the most rows, the upper-case
\* variant, a file with no outcome column at all, one with no employer
PlainFiles ==
    {PlainFile(HeaderFull, 0), PlainFile(HeaderFull, MaxRowsPerFile),
     PlainFile(HeaderUpper, MaxRowsPerFile),
     PlainFile(<<T_Employer, H_Company>>, 1),
     PlainFile(HeaderNoEmployer, 1)}

FileNames == {F_2015, <<"h", "1", "b", "_", "d", "a", "t", "a", "h", "u", "b", "e", "x", "p", "o", "r", "t", "-", "2", "0", "1", "6", ".", "c", "s", "v">>, <<"h", "1", "b", "_", "d", "a", "t", "a", "h", "u", "b", "e", "x", "p", "o", "r", "t", "-", "f", "i", "n", "a", "l", ".", "c", "s", "v">>, <<"c", "l", "e", "a", "n", "_", "h", "1", "b", "_", "d", "a", "t", "a", ".", "c", "s", "v">>}

PlainDirs ==
    UNION {[S -> PlainFiles] :
              S \in {T \in SUBSET FileNames : Cardinality(T) <= MaxFiles}}
\* a directory of one rich file, of one file whose employer column bears
\* one of the accepted headers as the source file spells it, or of plain
\* files
DataDirs ==
    {[n \in {F_2015} |-> f] : f \in RichFiles}
    \cup {[n \in {F_2015} |-> PlainFile(<<h, H_Company>>, 1)] :
             h \in Range(EmployerAliases)}
    \cup PlainDirs

NotLoaded == << >>

\* before the first call, with some calls to come
BeforeLoad(dirs, calls) ==
    /\ dataDir \in dirs
    /\ loadPc = "idle"
    /\ loadErr = "none"
    /\ unified = NotLoaded
    /\ loadWarned = << >>
    /\ loadLeft = calls



\* a variant of FilesAfterLoad in which the files that were read are gone
FilesAfterLoadConsumed(dir) == [n \in {m \in DOMAIN dir : ~GlobMatches(m)} |-> dir[n]]

\* the files of data_dir after a call: load_and_clean only reads them
FilesAfterLoad(dir) == dir

\* df = load_and_clean("data")
LoadAndCleanCall ==
    /\ loadLeft > 0
    /\ loadLeft' = loadLeft - 1
    /\ LET r == LoadAndClean(dataDir)
       IN /\ loadErr' = r.err
          /\ loadPc' = IF r.err = "none" THEN "returned" ELSE "raised"
          /\ unified' = r.rows
          /\ loadWarned' = r.warned
    /\ dataDir' = FilesAfterLoad(dataDir)

----------------------------------------------------------------------------
(* prepare.py: integrate_employers *)

H_Employer_std == <<"E", "m", "p", "l", "o", "y", "e", "r", "_", "s", "t", "d">>
H_CPT_Friendly == <<"C", "P", "T", " ", "F", "r", "i", "e", "n", "d", "l", "y">>
N_acme_padded == <<" ", " ", "a", "c", "m", "e", " ", "i", "n", "c", " ">>
N_ACME_INC == <<"A", "C", "M", "E", " ", "I", "N", "C">>
N_acme_inc_dot == <<"A", "c", "m", "e", " ", "I", "n", "c", ".">>
N_acme_2sp == <<"A", "c", "m", "e", " ", " ", "I", "n", "c">>
N_bolt == <<"B", "o", "l", "t">>
\* the one character U+2713 (check mark)
CheckMark == <<"U+2713">>

\* a name bound to None, and a path at which os.path.exists is false
None == [defined |-> FALSE]
Absent == [exists |-> FALSE, cols |-> << >>, rows |-> << >>]

\* lines 27-35: with the opt_company.py and cpt_company.py of this
\* repository "from opt_company import get_opt_companies" and "from
\* cpt_company import get_cpt_companies" raise ImportError, since neither
\* module defines such a name, and the except clauses bind None.  A module
\* on the import path that does define the name binds a function; it is
\* modelled by the table its call returns.
get_opt_companies == None
get_cpt_companies == None

\* a variant of Canon that forgets .str.strip()
CanonNoStrip(v) == UpperText(AsStr(v))

\* .astype(str).str.upper().str.strip()
Canon(v) == Strip(UpperText(AsStr(v)))

\* df[name]: the position of the column called name, 0 (KeyError) without
ColumnIndex(cols, name) == IndexIn(name, cols)

\* the canonical keys of one column of a reference table
ColumnKeys(rows, j) == {Canon(rows[i][j]) : i \in DOMAIN rows}

\* line 127: [c for c in fortune.columns if "COMPANY" in c.upper()][0]
CompanyColumn(cols) ==
    MinOrZero({i \in DOMAIN cols : Contains(UpperText(cols[i]), <<"C", "O", "M", "P", "A", "N", "Y">>)})

\* lines 126-128 with the column found at position j (0: IndexError)
FortuneFrom(table, j) ==
    IF j = 0 THEN [err |-> "IndexError", keys |-> {}]
    ELSE [err |-> "none", keys |-> ColumnKeys(table.rows, j)]

\* a variant of FortuneKeys for which a missing file is an empty list
FortuneKeysOptional(file) ==
    IF file = Absent THEN [err |-> "none", keys |-> {}]
    ELSE FortuneFrom(file, CompanyColumn(file.cols))

\* lines 126-128: the Fortune 500 membership set, or the exception
FortuneKeys(file) ==
    IF file = Absent THEN [err |-> "FileNotFoundError", keys |-> {}]
    ELSE FortuneFrom(file, CompanyColumn(file.cols))

\* lines 133-136: the cached OPT table; Employer stands in for a missing
\* Employer_std, and opt["Employer_std"] raises KeyError without either
OptCached(table) ==
    IF ColumnIndex(table.cols, H_Employer_std) > 0
    THEN [err |-> "none",
          keys |-> ColumnKeys(table.rows, ColumnIndex(table.cols, H_Employer_std))]
    ELSE IF ColumnIndex(table.cols, T_Employer) > 0
    THEN [err |-> "none",
          keys |-> ColumnKeys(table.rows, ColumnIndex(table.cols, T_Employer))]
    ELSE [err |-> "KeyError", keys |-> {}]

\* lines 140-141 and 161-162: the table a fetch returns, keyed by Employer
Fetched(table) ==
    IF ColumnIndex(table.cols, T_Employer) = 0
    THEN [err |-> "KeyError", keys |-> {}]
    ELSE [err |-> "none",
          keys |-> ColumnKeys(table.rows, ColumnIndex(table.cols, T_Employer))]

\* a variant of OptKeys for which the OPT list is mandatory
OptKeysMandatory(file, getter) ==
    IF file # Absent THEN OptCached(file)
    ELSE IF getter # None THEN Fetched(getter.table)
    ELSE [err |-> "FileNotFoundError", keys |-> {}]

\* a variant of OptKeys that asks the fetch function before the cache
OptKeysFetchFirst(file, getter) ==
    IF getter # None THEN Fetched(getter.table)
    ELSE IF file # Absent THEN OptCached(file)
    ELSE [err |-> "none", keys |-> {}]

\* lines 132-145: the OPT membership set
OptKeys(file, getter) ==
    IF file # Absent THEN OptCached(file)
    ELSE IF getter # None THEN Fetched(getter.table)
    ELSE [err |-> "none", keys |-> {}]

\* line 156: str(x).strip() == the check mark
IsFriendly(cell) == Strip(AsStr(cell)) = CheckMark

\* lines 155-157: the rows kept by the "CPT Friendly" filter
FriendlyRows(table) ==
    IF ColumnIndex(table.cols, H_CPT_Friendly) = 0 THEN table.rows
    ELSE SelectSeq(table.rows,
                   LAMBDA r : IsFriendly(r[ColumnIndex(table.cols, H_CPT_Friendly)]))

\* lines 150-153: the name column is Company, else the first column
CptNameColumn(cols) ==
    IF ColumnIndex(cols, H_Company) > 0 THEN ColumnIndex(cols, H_Company) ELSE 1

\* lines 149-157: the cached CPT table
CptCached(table) ==
    IF table.cols = << >> THEN [err |-> "IndexError", keys |-> {}]
    ELSE [err |-> "none",
          keys |-> ColumnKeys(FriendlyRows(table), CptNameColumn(table.cols))]

\* lines 148-166: the CPT membership set
CptKeys(file, getter) ==
    IF file # Absent THEN CptCached(file)
    ELSE IF getter # None THEN Fetched(getter.table)
    ELSE [err |-> "none", keys |-> {}]

BoolInt(b) == IF b THEN 1 ELSE 0

\* a variant of FlexibilityIndex that sums all three flags
FlexibilityIndexAllFlags(fortune500, opt_friendly, cpt_friendly) ==
    BoolInt(fortune500) + BoolInt(opt_friendly) + BoolInt(cpt_friendly)

\* line 173: df[["OPT_friendly", "CPT_friendly"]].sum(axis=1)
FlexibilityIndex(fortune500, opt_friendly, cpt_friendly) ==
    BoolInt(opt_friendly) + BoolInt(cpt_friendly)

\* lines 169-173 for one record
Classify(row, fortune, opt, cpt) ==
    [Employer |-> row.Employer,
     Employer_std |-> Canon(row.Employer),
     Fortune500 |-> Canon(row.Employer) \in fortune,
     OPT_friendly |-> Canon(row.Employer) \in opt,
     CPT_friendly |-> Canon(row.Employer) \in cpt,
     Flexibility_Index |->
         FlexibilityIndex(Canon(row.Employer) \in fortune,
                          Canon(row.Employer) \in opt,
                          Canon(row.Employer) \in cpt)]

\* integrate_employers once the three lists are read: the first exception
\* in the order Fortune 500, OPT, CPT, or the classified rows
Merge(df, fortune, opt, cpt) ==
    IF fortune.err # "none" THEN [err |-> fortune.err, rows |-> df]
    ELSE IF opt.err # "none" THEN [err |-> opt.err, rows |-> df]
    ELSE IF cpt.err # "none" THEN [err |-> cpt.err, rows |-> df]
    ELSE [err |-> "none",
          rows |-> [i \in DOMAIN df |->
                       Classify(df[i], fortune.keys, opt.keys, cpt.keys)]]

\* pd.read_csv of a cell that to_csv wrote: the texts pandas takes for
\* missing values come back as NaN (to_csv writes NaN as the empty text)
NaTexts ==
    {<< >>, <<"n", "a", "n">>, <<"N", "a", "N">>, <<"N", "A">>, <<"N", "/", "A">>,
     <<"n", "/", "a">>, <<"N", "U", "L", "L">>, <<"n", "u", "l", "l">>,
     <<"N", "o", "n", "e">>, <<"#", "N", "/", "A">>, <<"#", "N", "A">>}
CsvCell(c) == IF c = NA \/ c \in NaTexts THEN NA ELSE c

\* table["Employer_std"] = keys: the column is replaced, or appended
SetColumn(cols, name) == IF name \in Range(cols) THEN cols ELSE Append(cols, name)
SetCell(cols, row, name, v) ==
    IF name \in Range(cols) THEN [row EXCEPT ![ColumnIndex(cols, name)] = v]
    ELSE Append(row, v)

\* lines 141-142 and 162-163: the fetched table with its Employer_std
\* column, as the file that to_csv writes reads back
CacheOf(table) ==
    [exists |-> TRUE,
     cols |-> SetColumn(table.cols, H_Employer_std),
     rows |-> [i \in DOMAIN table.rows |->
                  [j \in DOMAIN SetColumn(table.cols, H_Employer_std) |->
                      CsvCell(SetCell(table.cols, table.rows[i], H_Employer_std,
                                      Canon(table.rows[i][ColumnIndex(table.cols,
                                                                    T_Employer)]))[j])]]]

\* the file at a cache path after its list is obtained with outcome got:
\* written only by a fetch that raised nothing
FileAfter(file, getter, got) ==
    IF file = Absent /\ getter # None /\ got.err = "none"
    THEN CacheOf(getter.table) ELSE file

\* the reference files when integrate_employers ends: the Fortune 500 list
\* is read before anything is written, the OPT cache before the CPT list
\* is obtained
FilesAfter(files, g, fortune, opt, cpt) ==
    IF fortune.err # "none" THEN files
    ELSE IF opt.err # "none" THEN files
    ELSE [fortune |-> files.fortune,
          opt |-> FileAfter(files.opt, g.opt, opt),
          cpt |-> FileAfter(files.cpt, g.cpt, cpt)]

\* lines 140 and 161: the calls of get_opt_companies() and
\* get_cpt_companies() that one call of integrate_employers makes; a
\* statement is reached when nothing before it raised
GetterCalls(files, g, fortune, opt) ==
    [opt |-> IF fortune.err = "none" /\ files.opt = Absent /\ g.opt # None
             THEN 1 ELSE 0,
     cpt |-> IF fortune.err = "none" /\ opt.err = "none"
                /\ files.cpt = Absent /\ g.cpt # None
             THEN 1 ELSE 0]

\* integrate_employers(df) against the files of the data directory
IntegrateEmployers(df, files, g) ==
    Merge(df, FortuneKeys(files.fortune),
          OptKeys(files.opt, g.opt),
          CptKeys(files.cpt, g.cpt))

----------------------------------------------------------------------------
(* The inputs of integrate_employers: the table and the reference files *)

EmployerNames ==
    <<N_acme_padded, N_ACME_INC, N_acme_inc_dot, N_acme_2sp, N_bolt, NA>>
RefNames == Range(EmployerNames) \cup {<<"n", "a", "n">>}

\* the unified table: one record per employer name
AllEmployers == [i \in DOMAIN EmployerNames |-> [Employer |-> EmployerNames[i]]]

OneColumn(header, names) ==
    [exists |-> TRUE, cols |-> <<header>>,
     rows |-> [i \in DOMAIN names |-> <<names[i]>>]]

FortuneFiles ==
    {Absent} \cup {OneColumn(<<"N", "a", "m", "e">>, <<N_ACME_INC>>)}
    \cup {OneColumn(H_Company, l) : l \in SeqsUpTo(RefNames, MaxRefRows)}
OptFiles ==
    {Absent} \cup {OneColumn(<<"N", "a", "m", "e">>, <<N_ACME_INC>>)}
    \cup {OneColumn(h, l) : h \in {T_Employer, H_Employer_std}, l \in SeqsUpTo(RefNames, MaxRefRows)}

MarkedRows == {<<n, m>> : n \in {N_ACME_INC, N_bolt}, m \in {CheckMark, <<" ", "U+2713", " ">>, <<"x">>, NA}}
CptFiles ==
    {Absent} \cup {OneColumn(h, l) : h \in {H_Company, T_Employer}, l \in SeqsUpTo(RefNames, MaxRefRows)}
    \cup {[exists |-> TRUE, cols |-> <<T_Employer, H_CPT_Friendly>>, rows |-> r] :
             r \in SeqsUpTo(MarkedRows, MaxRefRows)}
    \cup {[exists |-> TRUE, cols |-> <<<<"R", "a", "n", "k">>, H_Company, H_CPT_Friendly>>,
           rows |-> << <<<<"1">>, N_bolt, <<"x">> >>, <<<<"2">>, N_ACME_INC, CheckMark>> >>]}


\* each reference file varies over all its forms while the other two take
\* a few
RefFileSets ==
    [fortune : FortuneFiles, opt : {Absent, OneColumn(T_Employer, <<N_ACME_INC>>)}, cpt : {Absent, OneColumn(H_Company, <<N_acme_padded>>)}]
    \cup [fortune : {OneColumn(H_Company, <<N_ACME_INC>>)}, opt : OptFiles, cpt : {Absent, OneColumn(H_Company, <<N_acme_padded>>)}]
    \cup [fortune : {OneColumn(H_Company, <<N_ACME_INC>>)}, opt : {Absent, OneColumn(T_Employer, <<N_ACME_INC>>)}, cpt : CptFiles]

\* the tables a fetch may return: keyed by Employer, with or without the
\* "CPT Friendly" column, or lacking the Employer column
Fetchers ==
    {[defined |-> TRUE, table |-> [cols |-> <<h>>, rows |-> [i \in DOMAIN l |-> <<l[i]>>]]] :
        h \in {T_Employer, H_Company}, l \in SeqsUpTo(RefNames, MaxRefRows)}
    \cup {[defined |-> TRUE,
           table |-> [cols |-> <<T_Employer, H_CPT_Friendly>>, rows |-> r]] :
             r \in SeqsUpTo(MarkedRows, MaxRefRows)}
GetterSets ==
    [opt : Fetchers, cpt : {None}] \cup [opt : {None}, cpt : Fetchers]
    \cup {[opt |-> f, cpt |-> f] : f \in Fetchers}
    \cup {[opt |-> [defined |-> TRUE,
                    table |-> [cols |-> <<T_Employer>>, rows |-> << <<N_ACME_INC>> >>]],
           cpt |-> [defined |-> TRUE,
                    table |-> [cols |-> <<H_Company>>, rows |-> << <<N_ACME_INC>> >>]]]}

\* the files next to a fetch: a cache that is there is read instead
FetchFileSets ==
    [fortune : {OneColumn(H_Company, <<N_ACME_INC>>)} \cup {Absent}, opt : {Absent}, cpt : {Absent}]
    \cup [fortune : {OneColumn(H_Company, <<N_ACME_INC>>)}, opt : {Absent, OneColumn(T_Employer, <<N_ACME_INC>>)}, cpt : {Absent, OneColumn(H_Company, <<N_acme_padded>>)}]

InitIntegrate ==
    /\ intDf \in {AllEmployers, SubSeq(AllEmployers, 1, 2)}
    /\ \/ refFiles \in RefFileSets /\ getters = [opt |-> get_opt_companies,
                                                   cpt |-> get_cpt_companies]
       \/ refFiles \in FetchFileSets /\ getters \in GetterSets
    /\ getterCalls = [opt |-> 0, cpt |-> 0]
    /\ intPc = "idle"
    /\ intErr = "none"
    /\ intLeft = 1

\* df = integrate_employers(df): df is modified in place and returned
IntegrateEmployersCall ==
    /\ intLeft > 0
    /\ intLeft' = intLeft - 1
    /\ LET r == IntegrateEmployers(intDf, refFiles, getters)
       IN /\ intErr' = r.err
          /\ intPc' = IF r.err = "none" THEN "returned" ELSE "raised"
          /\ intDf' = r.rows
    /\ refFiles' = FilesAfter(refFiles, getters, FortuneKeys(refFiles.fortune),
                              OptKeys(refFiles.opt, getters.opt),
                              CptKeys(refFiles.cpt, getters.cpt))
    /\ getterCalls' = GetterCalls(refFiles, getters, FortuneKeys(refFiles.fortune),
                                  OptKeys(refFiles.opt, getters.opt))
    /\ UNCHANGED getters

----------------------------------------------------------------------------
(* simulation.py *)

Hundred == 100

NoCall == [style |-> "none"]
NoSummary == "NoSummary"

\* the names bound in the module's globals when simulate_fee_change runs:
\* the module's only import is "import pandas as pd"
ModuleNames == {"pd"}

\* the parameters the signature accepts by keyword
SimParams == {"df", "alpha", "elasticity_low", "elasticity_high"}

\* keywords passed by a call of each style: app.py passes the pair,
\* app2.py passes elasticity=...
CallKeywords(style) ==
    IF style = "pair" THEN {"alpha", "elasticity_low", "elasticity_high"}
    ELSE {"alpha", "elasticity"}

\* np.where(df["Flexibility_Index"] > 0.5, "More Flexible", "Less Flexible")
FlexGroup(fi) == IF 2 * fi > 1 THEN "More Flexible" ELSE "Less Flexible"

\* np.where(df["Flex_Group"] == "More Flexible", elasticity_high, elasticity_low)
ElasticityOf(group, el, eh) == IF group = "More Flexible" THEN eh ELSE el

\* Total_Applications * (1 + Elasticity * alpha), in units of 1/Hundred^2
Simulated(total, e, a) == total * (Hundred * Hundred + e * a)

\* 100 * (simulated / total - 1), simulated in units of 1/Hundred^2
ChangePct(sim, total) ==
    LET q == FloatDiv(sim, Hundred * Hundred * total)
    IN IF q.kind = "num"
       THEN FloatDiv(100 * (q.num - q.den), q.den)
       ELSE q

\* the local copy after steps 1-3
LocalRows(df, a, el, eh) ==
    [i \in DOMAIN df |->
        LET g == FlexGroup(df[i].Flexibility_Index)
            e == ElasticityOf(g, el, eh)
            s == Simulated(df[i].Total_Applications, e, a)
        IN [Year |-> df[i].Year,
            Flexibility_Index |-> df[i].Flexibility_Index,
            Total_Applications |-> df[i].Total_Applications,
            Flex_Group |-> g,
            Elasticity |-> e,
            Simulated_Total_Applications |-> s,
            Change |-> ChangePct(s, df[i].Total_Applications)]]


\* group_cols = [c for c in ["Year", "Flex_Group"] if c in df.columns]
GroupKey(row, cols) ==
    [Year |-> IF "Year" \in cols THEN row.Year ELSE "NoYear",
     Flex_Group |-> row.Flex_Group]

\* df.groupby(group_cols, as_index=False)[[...]].sum(), then Change_%
Summary(local, cols) ==
    LET keys == {GroupKey(local[i], cols) : i \in DOMAIN local}
        members(k) == {i \in DOMAIN local : GroupKey(local[i], cols) = k}
        tot(k) == SumOver([i \in DOMAIN local |-> local[i].Total_Applications],
                          members(k))
        sim(k) == SumOver([i \in DOMAIN local |->
                              local[i].Simulated_Total_Applications], members(k))
    IN {[Year |-> k.Year, Flex_Group |-> k.Flex_Group,
         Total_Applications |-> tot(k),
         Simulated_Total_Applications |-> sim(k),
         Change |-> ChangePct(sim(k), tot(k))] : k \in keys}

\* a variant of SimOutcome without the column test of lines 63-66
SimOutcomeNoColumnTest(style, cols) ==
    IF ~(CallKeywords(style) \subseteq SimParams) THEN "TypeError"
    ELSE IF "np" \notin ModuleNames THEN "NameError"
    ELSE IF "Total_Applications" \notin cols THEN "KeyError"
    ELSE "none"

\* The exception a call raises, "none" when it returns.  In the order Python
\* evaluates: argument binding, the column test of line 63, the lookup of
\* the global name np of line 64, the column lookup of line 72.
SimOutcome(style, cols) ==
    IF ~(CallKeywords(style) \subseteq SimParams) THEN "TypeError"
    ELSE IF "Flexibility_Index" \notin cols THEN "ValueError"
    ELSE IF "np" \notin ModuleNames THEN "NameError"
    ELSE IF "Total_Applications" \notin cols THEN "KeyError"
    ELSE "none"

SimRecords ==
    [Year : {2015, 2016}, Flexibility_Index : 0..2, Total_Applications : {0, 100}]


\* the calls: alpha and the elasticities in hundredths
SimCalls ==
    [style : {"pair"}, alpha : {0, 20, -50},
     elasticity_low : {-50, -30}, elasticity_high : {-20, -30}]
    \cup
    \* elasticity=e: the one value stands for both groups
    {[style |-> "single", alpha |-> a, elasticity_low |-> e, elasticity_high |-> e] :
        a \in {0, 20, -50}, e \in {-50, -30}}

SimIdle ==
    /\ tab2 = [pc |-> "idle"]
    /\ simDf = << >>
    /\ simCols = {}
    /\ simCall = NoCall
    /\ simPc = "done"
    /\ simErr = "none"
    /\ simLocal = << >>
    /\ simSummary = NoSummary

LoadIdle ==
    /\ dataDir = << >>
    /\ loadPc = "done"
    /\ loadErr = "none"
    /\ unified = NotLoaded
    /\ loadWarned = << >>
    /\ loadLeft = 0

InitSimTable ==
    /\ tab2 = [pc |-> "idle"]
    /\ simDf \in SeqsUpTo(SimRecords, MaxSimRows)
    /\ simCols \in {{"Year", "Flexibility_Index", "Total_Applications"},
                    {"Flexibility_Index", "Total_Applications"},
                    {"Year", "Total_Applications"},
                    {"Total_Applications"}}
    /\ simCall = NoCall
    /\ simPc = "idle"
    /\ simErr = "none"
    /\ simLocal = << >>
    /\ simSummary = NoSummary

\* sim = simulate_fee_change(df, alpha=..., ...)
SimulateFeeChange ==
    /\ simPc = "idle"
    /\ \E call \in SimCalls :
        LET err == SimOutcome(call.style, simCols)
            local == LocalRows(simDf, call.alpha, call.elasticity_low,
                               call.elasticity_high)
        IN /\ simCall' = call
           /\ simErr' = err
           /\ simPc' = IF err = "none" THEN "returned" ELSE "raised"
           /\ simLocal' = IF err = "none" THEN local ELSE << >>
           /\ simSummary' = IF err = "none" THEN Summary(local, simCols)
                            ELSE NoSummary
    /\ UNCHANGED <<simDf, simCols>>

----------------------------------------------------------------------------
(* app.py: the simulation tab (lines 248-306).  Streamlit runs the script  *)
(* again for every setting of the sliders.  Elasticities and alpha are in  *)
(* hundredths, projected changes in units of 1/(Hundred*Hundred) percent.  *)

\* line 253
baseline_fee == 25000
\* line 289, in hundredths
elasticity_gap == 15

\* a variant of elasticity_low without the floor of -1.0
elasticity_low_unclamped(elasticity) == elasticity - elasticity_gap

\* line 290: max(-1.0, elasticity - elasticity_gap)
elasticity_low(elasticity) ==
    IF elasticity - elasticity_gap < -Hundred THEN -Hundred
    ELSE elasticity - elasticity_gap

\* line 291: min(0.0, elasticity + elasticity_gap)
elasticity_high(elasticity) ==
    IF elasticity + elasticity_gap > 0 THEN 0 ELSE elasticity + elasticity_gap

\* line 294: (fee_usd - baseline_fee) / baseline_fee; exact in hundredths
\* for the fees of the slider
alpha(fee_usd) == ((fee_usd - baseline_fee) * Hundred) \div baseline_fee

\* lines 305-306: elasticity * alpha * 100
projected_change(elasticity, a) == elasticity * a * 100

\* One run of the tab: the sliders of lines 262-271 hold a fee of 5,000 to
\* 100,000 in steps of 5,000 and an elasticity of -1.0 to 0.0 in steps of
\* 0.05; lines 289-294 derive the pair and alpha; line 297 calls
\* simulate_fee_change on the table of data/clean_h1b_data.csv, and only
\* when that returns are the projected changes of lines 305-306 computed.
Tab2Run ==
    /\ \E fee_usd \in {5000 * k : k \in 1..20}, elasticity \in {-5 * k : k \in 0..20} :
          tab2' =
              [pc |-> IF SimOutcome("pair", {"Year", "Flexibility_Index",
                                             "Total_Applications"}) = "none"
                      THEN "shown" ELSE "raised",
               err |-> SimOutcome("pair", {"Year", "Flexibility_Index",
                                           "Total_Applications"}),
               fee_usd |-> fee_usd,
               elasticity |-> elasticity,
               elasticity_low |-> elasticity_low(elasticity),
               elasticity_high |-> elasticity_high(elasticity),
               alpha |-> alpha(fee_usd),
               projected_change |->
                   IF SimOutcome("pair", {"Year", "Flexibility_Index",
                                          "Total_Applications"}) = "none"
                   THEN <<projected_change(elasticity_low(elasticity), alpha(fee_usd)),
                          projected_change(elasticity_high(elasticity), alpha(fee_usd))>>
                   ELSE << >>]
    /\ UNCHANGED <<simVars, loadVars, intVars>>

IntIdle ==
    /\ intDf = << >>
    /\ refFiles = [fortune |-> Absent, opt |-> Absent, cpt |-> Absent]
    /\ getters = [opt |-> None, cpt |-> None]
    /\ getterCalls = [opt |-> 0, cpt |-> 0]
    /\ intPc = "done"
    /\ intErr = "none"
    /\ intLeft = 0

----------------------------------------------------------------------------
(* Specifications: one per function, and the three together *)

SimStep == SimulateFeeChange /\ UNCHANGED <<loadVars, intVars, tab2>>
LoadStep == LoadAndCleanCall /\ UNCHANGED <<simVars, intVars, tab2>>
IntegrateStep == IntegrateEmployersCall /\ UNCHANGED <<simVars, loadVars, tab2>>

InitSim == InitSimTable /\ LoadIdle /\ IntIdle
SpecSim == InitSim /\ [][SimStep]_vars

InitLoadDir == BeforeLoad(DataDirs, 1) /\ SimIdle /\ IntIdle
SpecLoad == InitLoadDir /\ [][LoadStep]_vars

\* the same directory loaded again and again: the directories whose files
\* have rows and some outcome column
InitLoadTwice ==
    /\ BeforeLoad({d \in PlainDirs :
                      \A n \in DOMAIN d :
                          /\ d[n].rows # << >>
                          /\ d[n].header # <<T_Employer, H_Company>>},
                  MaxRuns)
    /\ SimIdle
    /\ IntIdle
SpecLoadTwice == InitLoadTwice /\ [][LoadStep]_vars

InitInt == InitIntegrate /\ SimIdle /\ LoadIdle
SpecIntegrate == InitInt /\ [][IntegrateStep]_vars

\* integrate_employers called again on the table and the files it left,
\* from the states in which a fetch function is there
InitIntTwice ==
    /\ intDf \in {AllEmployers, SubSeq(AllEmployers, 1, 2)}
    /\ refFiles \in FetchFileSets
    /\ getters \in GetterSets
    /\ getterCalls = [opt |-> 0, cpt |-> 0]
    /\ intPc = "idle"
    /\ intErr = "none"
    /\ intLeft = MaxRuns
    /\ SimIdle
    /\ LoadIdle
SpecIntegrateTwice == InitIntTwice /\ [][IntegrateStep]_vars

\* the dashboard before its first run
InitTab2 == SimIdle /\ LoadIdle /\ IntIdle
SpecTab2 == InitTab2 /\ [][Tab2Run]_vars

Init == InitSim \/ InitLoadDir \/ InitInt \/ InitTab2
Next == SimStep \/ LoadStep \/ IntegrateStep \/ Tab2Run
Spec == Init /\ [][Next]_vars

----------------------------------------------------------------------------
(* The claims about simulate_fee_change (checked under SpecSim) *)

\* a call with the (low, high) pair on a table that has the two columns the
\* function reads has been made
PairCallMade ==
    /\ simPc # "idle"
    /\ simCall.style = "pair"
    /\ {"Flexibility_Index", "Total_Applications"} \subseteq simCols

\* the elasticity the claims give a record: high for index 1 or 2, low for 0
ClaimedElasticity(fi) ==
    IF fi \in {1, 2} THEN simCall.elasticity_high ELSE simCall.elasticity_low

\* C1: for every record given to simulate_fee_change, the simulated volume
\* is Total_Applications x (1 + e x alpha), e being elasticity_high for a
\* 'More Flexible' record and elasticity_low for a 'Less Flexible' one
\* (100 applications, index 0, alpha 0.2, elasticity_low -0.5 give 90).
C1_PerRecordResponse ==
    PairCallMade =>
        \A i \in DOMAIN simDf :
            /\ simPc = "returned"
            /\ i \in DOMAIN simLocal
            /\ simLocal[i].Simulated_Total_Applications =
                  simDf[i].Total_Applications
                    * (Hundred * Hundred
                        + ClaimedElasticity(simDf[i].Flexibility_Index) * simCall.alpha)

\* C2: every input record is put in exactly one Flex_Group: 'More Flexible'
\* if and only if its Flexibility_Index is 1 or 2, 'Less Flexible' if and
\* only if it is 0; none is left out.
C2_ExactlyOneGroup ==
    PairCallMade =>
        \A i \in DOMAIN simDf :
              /\ simPc = "returned"
              /\ i \in DOMAIN simLocal
              /\ simLocal[i].Flex_Group \in {"More Flexible", "Less Flexible"}
              /\ simLocal[i].Flex_Group = "More Flexible"
                    <=> simDf[i].Flexibility_Index \in {1, 2}
              /\ simLocal[i].Flex_Group = "Less Flexible"
                    <=> simDf[i].Flexibility_Index = 0

\* the records of the local copy that a summary row aggregates
RowMembers(s) ==
    {i \in DOMAIN simLocal :
        /\ simLocal[i].Flex_Group = s.Flex_Group
        /\ "Year" \in simCols => simLocal[i].Year = s.Year}

\* C6: in every row of the summary, Change_% is 100 x (the group's sum of
\* simulated volumes / the group's sum of Total_Applications - 1): the ratio
\* of the sums, not a mean of the records' changes.
C6_ChangeFromGroupSums ==
    (PairCallMade /\ simDf # << >>) =>
        /\ simPc = "returned"
        /\ simSummary # NoSummary
        /\ \A s \in simSummary :
              s.Change =
                  ChangePct(
                      SumOver([i \in DOMAIN simLocal |->
                                  simLocal[i].Simulated_Total_Applications],
                              RowMembers(s)),
                      SumOver([i \in DOMAIN simLocal |->
                                  simLocal[i].Total_Applications], RowMembers(s)))

\* C7: with alpha = 0 every row of the summary has Change_% = 0, for any
\* elasticities and any table, whatever the group's baseline total.
C7_ZeroAlphaNoChange ==
    (PairCallMade /\ simCall.alpha = 0 /\ simDf # << >>) =>
        /\ simPc = "returned"
        /\ simSummary # NoSummary
        /\ \A s \in simSummary : s.Change = Num(0)

\* C8: the simulator may be called with a single elasticity e (elasticity=e,
\* as app2.py does); it then returns the summary of a call with
\* elasticity_low = elasticity_high = e.
C8_SingleElasticityCall ==
    (/\ simPc # "idle"
     /\ simCall.style = "single"
     /\ simDf # << >>
     /\ {"Flexibility_Index", "Total_Applications"} \subseteq simCols) =>
        /\ simPc = "returned"
        /\ simSummary =
              Summary(LocalRows(simDf, simCall.alpha, simCall.elasticity_low,
                                simCall.elasticity_low), simCols)

\* C9: when the table has no Flexibility_Index column the call fails with
\* an error (the ValueError of line 66 once the arguments are bound) and
\* returns no summary; no record is given a group, whatever the arguments.
C9_MissingColumnFails ==
    (simPc # "idle" /\ "Flexibility_Index" \notin simCols) =>
        /\ simPc = "raised"
        /\ simErr # "none"
        /\ simCall.style = "pair" => simErr = "ValueError"
        /\ simSummary = NoSummary
        /\ simLocal = << >>

C9_Witness ==
    /\ simPc = "raised"
    /\ simErr = "ValueError"
    /\ "Flexibility_Index" \notin simCols
    /\ Len(simDf) > 0
    /\ simCall.alpha # 0

----------------------------------------------------------------------------
(* The claims about load_and_clean (checked under SpecLoad) *)

\* C3: in every row of the table that load_and_clean returns,
\* Total_Applications = Total_Approvals + Total_Denials, whatever the four
\* outcome cells of the source row hold.
C3_TotalsAddUp ==
    loadPc = "returned" =>
        \A i \in DOMAIN unified :
            unified[i].Total_Applications =
                unified[i].Total_Approvals + unified[i].Total_Denials

\* C4: in every row of the table that load_and_clean returns the three
\* totals are >= 0: a negative outcome cell is clamped to zero before the
\* sums are taken.
C4_TotalsNonNegative ==
    loadPc = "returned" =>
        \A i \in DOMAIN unified :
            /\ unified[i].Total_Approvals >= 0
            /\ unified[i].Total_Denials >= 0
            /\ unified[i].Total_Applications >= 0

----------------------------------------------------------------------------
(* The claims about integrate_employers (checked under SpecIntegrate) *)

\* C5: after integrate_employers every record's Flexibility_Index is the
\* number of true flags among OPT_friendly and CPT_friendly: it is 0, 1 or
\* 2, and the Fortune500 flag does not count.
C5_FlexibilityIndexCountsOptCpt ==
    intPc = "returned" =>
        \A i \in DOMAIN intDf :
            /\ intDf[i].Flexibility_Index =
                  Cardinality({f \in {"OPT_friendly", "CPT_friendly"} : intDf[i][f]})
            /\ intDf[i].Flexibility_Index \in 0..2

C5_Witness ==
    /\ intPc = "returned"
    /\ \E i, j \in DOMAIN intDf :
          /\ intDf[i].Flexibility_Index = 2
          /\ intDf[j].Fortune500
          /\ intDf[j].Flexibility_Index = 0

\* two names differ at most in case and in leading or trailing whitespace
\* (a missing name reads as the text "nan", as astype(str) makes it)
SameButCaseAndPadding(a, b) ==
    LowerText(Strip(AsStr(a))) = LowerText(Strip(AsStr(b)))

\* the list that a call starting in this state obtains for one of the two
\* optional references: the cache file when there is one, else the table
\* the fetch returns, else nothing
Obtained(file, getter) ==
    IF file.exists THEN [how |-> "cache", cols |-> file.cols, rows |-> file.rows]
    ELSE IF getter.defined
    THEN [how |-> "fetch", cols |-> getter.table.cols, rows |-> getter.table.rows]
    ELSE [how |-> "none", cols |-> << >>, rows |-> << >>]

\* the names a list holds, taken from column j
ListedNames(rows, j) == {rows[i][j] : i \in DOMAIN rows}
FortuneNames == ListedNames(refFiles.fortune.rows, CompanyColumn(refFiles.fortune.cols))
OptNameColumn(list) ==
    IF list.how = "cache" /\ ColumnIndex(list.cols, H_Employer_std) > 0
    THEN ColumnIndex(list.cols, H_Employer_std)
    ELSE ColumnIndex(list.cols, T_Employer)
OptNames ==
    ListedNames(Obtained(refFiles.opt, getters.opt).rows,
                OptNameColumn(Obtained(refFiles.opt, getters.opt)))
CptListColumn(list) ==
    IF list.how = "cache" THEN CptNameColumn(list.cols)
    ELSE ColumnIndex(list.cols, T_Employer)
CptNames ==
    ListedNames(Obtained(refFiles.cpt, getters.cpt).rows,
                CptListColumn(Obtained(refFiles.cpt, getters.cpt)))
\* the rows of a list marked as friendly: all of them when the list has no
\* "CPT Friendly" column
MarkedFriendly(list) ==
    SelectSeq(list.rows,
              LAMBDA r : \/ ColumnIndex(list.cols, H_CPT_Friendly) = 0
                         \/ Strip(AsStr(r[ColumnIndex(list.cols, H_CPT_Friendly)]))
                               = CheckMark)
\* the CPT membership set of the amended C10: the marked entries of a list
\* read from its cache file, every entry of a fetched list
CptMemberNames ==
    IF Obtained(refFiles.cpt, getters.cpt).how = "cache"
    THEN ListedNames(MarkedFriendly(Obtained(refFiles.cpt, getters.cpt)),
                     CptListColumn(Obtained(refFiles.cpt, getters.cpt)))
    ELSE CptNames

\* a call returns in this step
IntegrateReturns == intPc = "idle" /\ intPc' = "returned"

\* after the step, a record has the flag exactly when its name is, up to
\* case and padding, one of names
FlagIsMembership(flag, names) ==
    \A i \in DOMAIN intDf' :
        intDf'[i][flag] <=> \E n \in names : SameButCaseAndPadding(intDf'[i].Employer, n)

CptMarkedNames ==
    ListedNames(MarkedFriendly(Obtained(refFiles.cpt, getters.cpt)),
                CptListColumn(Obtained(refFiles.cpt, getters.cpt)))

\* C11: when the CPT list that integrate_employers uses has a "CPT
\* Friendly" column, only its rows marked with the check mark (after
\* trimming) are in the CPT membership set, whether the list is read from
\* the cache file or fetched; without the column every row is in the set.
C11_OnlyMarkedRowsAreMembers ==
    [][IntegrateReturns => FlagIsMembership("CPT_friendly", CptMarkedNames)]_vars

\* an optional list has neither a cache file nor a fetch function
OptMissing == ~refFiles.opt.exists /\ getters.opt = None
CptMissing == ~refFiles.cpt.exists /\ getters.cpt = None

\* C12: when the OPT (respectively CPT) file is absent and there is no
\* fetch function, the absence raises nothing: a call that reads the Fortune
\* 500 list and obtains the other list without error returns, with
\* OPT_friendly (respectively CPT_friendly) false for every record and
\* Flexibility_Index counting the other flag alone.
C12_AbsentOptionalListDegrades ==
    [][(intPc = "idle" /\ intPc' # "idle") =>
        /\ (/\ OptMissing
            /\ FortuneKeys(refFiles.fortune).err = "none"
            /\ CptKeys(refFiles.cpt, getters.cpt).err = "none") =>
               /\ intPc' = "returned"
               /\ \A i \in DOMAIN intDf' :
                     /\ ~intDf'[i].OPT_friendly
                     /\ intDf'[i].Flexibility_Index = BoolInt(intDf'[i].CPT_friendly)
        /\ (/\ CptMissing
            /\ FortuneKeys(refFiles.fortune).err = "none"
            /\ OptKeys(refFiles.opt, getters.opt).err = "none") =>
               /\ intPc' = "returned"
               /\ \A i \in DOMAIN intDf' :
                     /\ ~intDf'[i].CPT_friendly
                     /\ intDf'[i].Flexibility_Index = BoolInt(intDf'[i].OPT_friendly)]_vars

\* a call without the OPT list returned a record that the CPT list flags
C12_Witness ==
    /\ intPc = "returned"
    /\ OptMissing
    /\ refFiles.cpt.exists
    /\ \E i \in DOMAIN intDf :
          intDf[i].CPT_friendly /\ intDf[i].Flexibility_Index = 1

\* C13: when the Fortune 500 file is absent the call raises an error
\* (FileNotFoundError from read_csv) and classifies nothing: no record gets
\* a flag or an index, whether or not the OPT and CPT lists are there.
C13_MissingFortuneFileFails ==
    (intPc # "idle" /\ ~refFiles.fortune.exists) =>
        /\ intPc = "raised"
        /\ intErr = "FileNotFoundError"
        /\ \A i \in DOMAIN intDf : DOMAIN intDf[i] = {"Employer"}

\* the call failed for want of the Fortune 500 file with an OPT cache there
C13_Witness ==
    /\ intPc = "raised"
    /\ ~refFiles.fortune.exists
    /\ refFiles.opt.exists
    /\ intDf # << >>

----------------------------------------------------------------------------
(* More claims about load_and_clean (checked under SpecLoad) *)

\* the files of the directory whose names match the yearly pattern
YearlyNames == {n \in DOMAIN dataDir : GlobMatches(n)}

\* what stands in a yearly file's name between the prefix and ".csv"
YearText(n) == SubSeq(n, Len(GlobPrefix) + 1, Len(n) - Len(GlobSuffix))
HasYear(n) ==
    /\ YearText(n) # << >>
    /\ \A i \in DOMAIN YearText(n) : YearText(n)[i] \in Range(Digits)

\* the source rows in the order the claims give the unified table: the
\* files by name (for names whose years have the same number of digits, by
\* year), each file's rows from first to last; <<file name, row number>>
RECURSIVE OriginsOf(_)
OriginsOf(S) ==
    IF S = {} THEN << >>
    ELSE LET n == CHOOSE x \in S :
                     \A y \in S : DigitsValue(YearText(x)) <= DigitsValue(YearText(y))
         IN [k \in DOMAIN dataDir[n].rows |-> <<n, k>>] \o OriginsOf(S \ {n})
Origins == OriginsOf(YearlyNames)
SourceHeader(o) == dataDir[o[1]].header
SourceRow(o) == dataDir[o[1]].rows[o[2]]

\* the outcome fields, by their place in name_map, that a header of the
\* model has no column for
MissingFields(header) ==
    IF header = HeaderFull THEN {}
    ELSE IF header = HeaderUpper THEN {3, 4}
    ELSE {1, 2, 3, 4}
FieldNames ==
    <<"Initial_Approvals", "Continuing_Approvals",
      "Initial_Denials", "Continuing_Denials">>

\* how often the warning for field k of file n was printed
TimesWarned(k, n) ==
    Cardinality({i \in DOMAIN loadWarned : loadWarned[i] = <<Targets[k], n>>})

\* C14: a yearly file none of whose columns matches an outcome field is no
\* error: each field without a column is warned about once, holds zero in
\* every row of the file, and the fields that have a column are still
\* used; with all four missing the three totals of the row are zero.
C14_MissingOutcomeColumnsAreZero ==
    loadPc = "returned" =>
        /\ Len(unified) = Len(Origins)
        /\ \A i \in DOMAIN unified :
              /\ \A k \in MissingFields(SourceHeader(Origins[i])) :
                    unified[i][FieldNames[k]] = 0
              /\ MissingFields(SourceHeader(Origins[i])) = {1, 2, 3, 4} =>
                    /\ unified[i].Total_Approvals = 0
                    /\ unified[i].Total_Denials = 0
                    /\ unified[i].Total_Applications = 0
              /\ SourceHeader(Origins[i]) = HeaderUpper =>
                    /\ unified[i].Initial_Approvals = Origins[i][2] * Unit
                    /\ unified[i].Total_Approvals = Origins[i][2] + 1
                    /\ unified[i].Total_Applications = Origins[i][2] + 1
        /\ \A n \in YearlyNames : \A k \in 1..4 :
              TimesWarned(k, n) =
                  IF k \in MissingFields(dataDir[n].header) THEN 1 ELSE 0

\* a file without any outcome column was loaded next to a full one
C14_Witness ==
    /\ loadPc = "returned"
    /\ Len(loadWarned) = 4
    /\ \E i, j \in DOMAIN unified :
          /\ MissingFields(SourceHeader(Origins[i])) = {1, 2, 3, 4}
          /\ unified[i].Total_Applications = 0
          /\ unified[j].Total_Applications > 0

\* the number that C15 gives a cell, in units of 1/Unit: what is left of
\* the cell once every character but digits, dots and minus signs is
\* deleted, read as a number; zero when nothing is left or it is no number
ClaimedNumber(cell) ==
    CASE cell = NA -> 0
      [] cell = <<"0", ".", "5">> -> Unit \div 2
      [] cell = <<"1", ".", "5">> -> Unit + Unit \div 2
      [] cell = <<"-", "1">> -> -Unit
      [] cell = <<"1", ",", "0">> -> 10 * Unit
      [] cell = <<"-">> -> 0
      [] cell = <<"D">> -> 0
      [] OTHER -> IndexIn(cell[1], Digits) * Unit - Unit

\* C15: the value load_and_clean uses for a cell of a detected outcome
\* column is the number parsed from the cell after deleting every
\* character that is not a digit, a dot or a minus sign, zero when nothing
\* remains or the rest is no number; it is never missing and no row is
\* dropped.
C15_CellsCoercedToNumbers ==
    loadPc = "returned" =>
        /\ Len(unified) = Len(Origins)
        /\ \A i \in DOMAIN unified :
              SourceHeader(Origins[i]) = HeaderFull =>
                  /\ unified[i].Initial_Approvals = ClaimedNumber(SourceRow(Origins[i])[2])
                  /\ unified[i].Initial_Denials = ClaimedNumber(SourceRow(Origins[i])[3])
                  /\ unified[i].Continuing_Approvals = ClaimedNumber(SourceRow(Origins[i])[4])
                  /\ unified[i].Continuing_Denials = ClaimedNumber(SourceRow(Origins[i])[5])

\* "1,0" was read as 10 and "-1" as -1
C15_Witness ==
    /\ loadPc = "returned"
    /\ Len(unified) = 1
    /\ SourceRow(Origins[1])[2] = <<"1", ",", "0">>
    /\ SourceRow(Origins[1])[3] = <<"-", "1">>
    /\ unified[1].Initial_Approvals = 10 * Unit
    /\ unified[1].Initial_Denials = -Unit

\* C16: if one of the yearly files has no employer-name column the call
\* fails with an error and returns no table: not the rows of the files
\* before it, and not the other files with that one skipped.
C16_NoEmployerColumnAborts ==
    (loadPc # "idle" /\ \E n \in YearlyNames : dataDir[n].header = HeaderNoEmployer) =>
        /\ loadPc = "raised"
        /\ loadErr = "ValueError"
        /\ unified = NotLoaded

\* the file without employer column came after a file with rows
C16_Witness ==
    /\ loadPc = "raised"
    /\ F_2015 \in DOMAIN dataDir
    /\ dataDir[F_2015].header = HeaderFull
    /\ dataDir[F_2015].rows # << >>
    /\ \E n \in YearlyNames :
          /\ HasYear(n)
          /\ DigitsValue(YearText(n)) > 2015
          /\ dataDir[n].header = HeaderNoEmployer
    /\ \A n \in YearlyNames : HasYear(n)

\* C17: when no file of the directory matches the yearly pattern the call
\* fails with an error (FileNotFoundError) before it reads anything and
\* returns no table, not even an empty one.
C17_NoYearlyFileFails ==
    (loadPc # "idle" /\ YearlyNames = {}) =>
        /\ loadPc = "raised"
        /\ loadErr = "FileNotFoundError"
        /\ unified = NotLoaded
        /\ loadWarned = << >>

\* the directory held a file, but none with a yearly name
C17_Witness ==
    /\ loadPc = "raised"
    /\ loadErr = "FileNotFoundError"
    /\ DOMAIN dataDir # {}

\* C18: every row of the unified table has the integer Year that ends the
\* name of its file; a yearly file whose name ends in no integer makes the
\* call fail with an error instead.
C18_YearFromFileName ==
    /\ loadPc = "returned" =>
          /\ Len(unified) = Len(Origins)
          /\ \A i \in DOMAIN unified :
                /\ unified[i].Year \in Nat
                /\ unified[i].Year = DigitsValue(YearText(Origins[i][1]))
    /\ (loadPc # "idle" /\ \E n \in YearlyNames : ~HasYear(n)) =>
          /\ loadPc = "raised"
          /\ loadErr = "ValueError"
          /\ unified = NotLoaded

\* a name without a year failed a directory whose files all have an
\* employer column and one of which was read before
C18_Witness ==
    /\ loadPc = "raised"
    /\ \E n \in YearlyNames : ~HasYear(n)
    /\ \E n \in YearlyNames : HasYear(n) /\ dataDir[n].rows # << >>
    /\ \A n \in YearlyNames : dataDir[n].header # HeaderNoEmployer

\* C19: a successful call returns the concatenation of the yearly files in
\* sorted name order, each file's rows in their own order: every source
\* row once, so there are as many rows as the files have together.
C19_RowsInFileThenRowOrder ==
    loadPc = "returned" =>
        /\ Len(unified) = Len(Origins)
        /\ \A i \in DOMAIN unified :
              /\ unified[i].Employer = SourceRow(Origins[i])[1]
              /\ unified[i].Year = DigitsValue(YearText(Origins[i][1]))
              /\ SourceHeader(Origins[i]) \in {HeaderFull, HeaderUpper} =>
                    unified[i].Initial_Approvals =
                        ClaimedNumber(SourceRow(Origins[i])[2])

\* two files of several rows each were concatenated
C19_Witness ==
    /\ loadPc = "returned"
    /\ Len(unified) = 2 * MaxRowsPerFile
    /\ unified[1].Year = 2015
    /\ unified[1].Initial_Approvals = Unit
    /\ unified[2].Year = 2015
    /\ unified[2].Initial_Approvals = 2 * Unit
    /\ unified[Len(unified)].Year = 2016

----------------------------------------------------------------------------
(* Claims about repeated calls (checked under SpecLoadTwice) *)

----------------------------------------------------------------------------
(* Claims about integrate_employers and its environment (checked under    *)
(* SpecIntegrate, the round trip under SpecIntegrateTwice)                 *)

\* a call of integrate_employers is made in this step
IntegrateCalled == intLeft' < intLeft

\* C21: integrate_employers is a pure function of its inputs: a call leaves
\* the unified table that was passed to it unchanged and creates or
\* modifies no file.
C21_CallIsPure ==
    [][IntegrateCalled => (intDf' = intDf /\ refFiles' = refFiles)]_vars

\* after the step, a record has the flag exactly when its canonical name is
\* one of keys
FlagsFrom(flag, keys) ==
    \A i \in DOMAIN intDf' : intDf'[i][flag] <=> Canon(intDf'[i].Employer) \in keys

\* one optional list, its fetch function called calls times: taken from the
\* cache when the file is there, else from one call of the fetch function
\* when there is one, else empty
ListByPrecedence(flag, file, getter, calls, cached) ==
    IF file.exists THEN calls = 0 /\ FlagsFrom(flag, cached)
    ELSE IF getter.defined
    THEN calls = 1 /\ FlagsFrom(flag, Fetched(getter.table).keys)
    ELSE calls = 0 /\ FlagsFrom(flag, {})

\* C22: for each optional list (OPT, CPT) a call follows a strict
\* precedence: a cache file that is present is used and the fetch function
\* is not called; only when the file is absent and a fetch function is
\* there is that function called, and then exactly once; only when neither
\* is there is the list empty.
C22_CacheThenFetchThenEmpty ==
    [][IntegrateCalled =>
        /\ getterCalls'.opt \in {0, 1}
        /\ getterCalls'.cpt \in {0, 1}
        /\ getterCalls'.opt = 1 => (~refFiles.opt.exists /\ getters.opt.defined)
        /\ getterCalls'.cpt = 1 => (~refFiles.cpt.exists /\ getters.cpt.defined)
        /\ intPc' = "returned" =>
              /\ ListByPrecedence("OPT_friendly", refFiles.opt, getters.opt,
                                  getterCalls'.opt, OptCached(refFiles.opt).keys)
              /\ ListByPrecedence("CPT_friendly", refFiles.cpt, getters.cpt,
                                  getterCalls'.cpt, CptCached(refFiles.cpt).keys)]_vars

\* a call fetched the OPT list and read the CPT list from its cache although
\* a CPT fetch function was there, and each list flagged some record
C22_Witness ==
    /\ intPc = "returned"
    /\ getterCalls = [opt |-> 1, cpt |-> 0]
    /\ getters.cpt.defined
    /\ refFiles.cpt.exists
    /\ \E i \in DOMAIN intDf : intDf[i].OPT_friendly /\ intDf[i].CPT_friendly

\* C26: if a first run found no cache file for the CPT (or OPT) list,
\* fetched the list and wrote the cache, then a second run on the same
\* table, which now reads that cache, yields the same CPT_friendly (or
\* OPT_friendly) flag and the same Flexibility_Index for every record.
C26_SecondRunSameFlags ==
    [][(IntegrateCalled /\ intPc = "returned") =>
        /\ intPc' = "returned"
        /\ getterCalls.opt = 1 =>
              \A i \in DOMAIN intDf : intDf'[i].OPT_friendly = intDf[i].OPT_friendly
        /\ getterCalls.cpt = 1 =>
              \A i \in DOMAIN intDf : intDf'[i].CPT_friendly = intDf[i].CPT_friendly
        /\ (getterCalls.opt = 1 \/ getterCalls.cpt = 1) =>
              \A i \in DOMAIN intDf :
                  intDf'[i].Flexibility_Index = intDf[i].Flexibility_Index]_vars

\* C28: whenever integrate_employers fails with an error it leaves the
\* state as it was before the call: the table passed in has gained no
\* column and no cache file has been created or rewritten.
C28_FailedCallChangesNothing ==
    [][(IntegrateCalled /\ intPc' = "raised") =>
        (intDf' = intDf /\ refFiles' = refFiles)]_vars

\* C29: a record whose employer name is missing in the source file is never
\* flagged as a member of a reference list: Fortune500, OPT_friendly and
\* CPT_friendly are all false for it, whatever the lists hold.
C29_MissingNameNeverFlagged ==
    intPc = "returned" =>
        \A i \in DOMAIN intDf :
            intDf[i].Employer = NA =>
                /\ ~intDf[i].Fortune500
                /\ ~intDf[i].OPT_friendly
                /\ ~intDf[i].CPT_friendly

----------------------------------------------------------------------------
(* More claims about simulate_fee_change (checked under SpecSim) *)

\* the group the claims give a record
ClaimedGroup(fi) == IF fi \in {1, 2} THEN "More Flexible" ELSE "Less Flexible"

\* the (Year, Flex_Group) combinations that occur among the input records,
\* the year left out when the table has no Year column
OccurringGroups ==
    {[Year |-> IF "Year" \in simCols THEN simDf[i].Year ELSE "NoYear",
      Flex_Group |-> ClaimedGroup(simDf[i].Flexibility_Index)] : i \in DOMAIN simDf}

\* C23: the summary has exactly one row for each (Year, Flex_Group)
\* combination that occurs among the input records and none for a
\* combination that does not occur; without a Year column it has one row
\* per occurring Flex_Group; each row carries Total_Applications,
\* Simulated_Total_Applications and Change_%.
C23_OneRowPerOccurringGroup ==
    PairCallMade =>
        /\ simPc = "returned"
        /\ {[Year |-> s.Year, Flex_Group |-> s.Flex_Group] : s \in simSummary}
              = OccurringGroups
        /\ Cardinality(simSummary) = Cardinality(OccurringGroups)
        /\ \A s \in simSummary :
              {"Total_Applications", "Simulated_Total_Applications", "Change"}
                  \subseteq DOMAIN s

\* C24: for every table that has the Flexibility_Index and
\* Total_Applications columns (an empty one included) and every alpha,
\* elasticity_low and elasticity_high, a call ends by returning a summary
\* table; it raises no error.
C24_CallReturnsSummary ==
    PairCallMade =>
        /\ simPc = "returned"
        /\ simErr = "none"

\* C27: the grouping loses and double-counts nothing: the sum of
\* Total_Applications over the rows of the summary is the sum over the input
\* records, and the sum of Simulated_Total_Applications over the summary is
\* the sum of the per-record simulated values, for every input table.
C27_GroupingKeepsSums ==
    PairCallMade =>
        /\ simPc = "returned"
        /\ SumOver([s \in simSummary |-> s.Total_Applications], simSummary)
              = SumOver([i \in DOMAIN simDf |-> simDf[i].Total_Applications],
                        DOMAIN simDf)
        /\ SumOver([s \in simSummary |-> s.Simulated_Total_Applications], simSummary)
              = SumOver([i \in DOMAIN simDf |->
                            simDf[i].Total_Applications
                              * (Hundred * Hundred
                                  + ClaimedElasticity(simDf[i].Flexibility_Index)
                                      * simCall.alpha)],
                        DOMAIN simDf)

----------------------------------------------------------------------------
(* A claim about the employer column of load_and_clean (SpecLoad) *)

\* C25: every header of the accepted list ('Employer', 'Employer Name',
\* 'EMPLOYER_NAME', 'EMPLOYER') is recognised: a yearly file whose employer
\* column bears any one of them is accepted by load_and_clean, which
\* renames the column to Employer, the header normalisation having run
\* before the lookup.
C25_EveryAcceptedHeaderRecognised ==
    (/\ loadPc # "idle"
     /\ YearlyNames # {}
     /\ \A n \in YearlyNames :
           HasYear(n) /\ dataDir[n].header[1] \in Range(EmployerAliases)) =>
        /\ loadPc = "returned"
        /\ Len(unified) = Len(Origins)
        /\ \A i \in DOMAIN unified :
              unified[i].Employer = SourceRow(Origins[i])[1]

----------------------------------------------------------------------------
(* A claim about the simulation tab of app.py (checked under SpecTab2) *)

====
